---- MODULE Spec2Model ----
(***************************************************************************)
(* Model of imap-data-access: the filename convention codec and validator  *)
(* (file_validation.py, file_naming.py) and the processing-input           *)
(* dependency model (processing_input_file.py).                            *)
(*                                                                         *)
(* A Python str is modelled as a sequence of one-character strings, so     *)
(* that regular-expression matching, slicing and concatenation are         *)
(* computed character by character as the code computes them.              *)
(***************************************************************************)
EXTENDS Integers, Sequences, FiniteSets, TLC

VARIABLES
    input,      \* the argument of the filename functions: a str or a Path
    result,     \* the outcome of the last filename function applied
    sfm,        \* the ScienceFilepathManager constructed from the input, if any
    pargs,      \* a ProcessingInput class and the arguments given to it
    pin,        \* the outcome of the last ProcessingInput operation
    coll,       \* processing_input of each ProcessingInputCollection
    cres,       \* the outcome of the last collection operation
    heap,       \* the list objects: the entries each one holds
    ref         \* the list object the caller's variable and each collection's
                \* processing_input attribute refer to

namevars == <<input, result, sfm>>
inputvars == <<pargs, pin>>
collvars == <<coll, cres>>
ownvars == <<heap, ref>>
vars == <<input, result, sfm, pargs, pin, coll, cres, heap, ref>>

(***************************************************************************)
(* Text helpers                                                            *)
(***************************************************************************)
Digits == {"0", "1", "2", "3", "4", "5", "6", "7", "8", "9"}

DigitVal(c) ==
    CASE c = "0" -> 0 [] c = "1" -> 1 [] c = "2" -> 2 [] c = "3" -> 3
      [] c = "4" -> 4 [] c = "5" -> 5 [] c = "6" -> 6 [] c = "7" -> 7
      [] c = "8" -> 8 [] c = "9" -> 9

IsDigit(c) == c \in Digits

\* int() of a run of decimal digits
RECURSIVE IntOf(_)
IntOf(s) ==
    IF s = <<>> THEN 0
    ELSE 10 * IntOf(SubSeq(s, 1, Len(s) - 1)) + DigitVal(s[Len(s)])

\* Python slice s[a:b] with 0-based bounds, clipped to the string
Slice(s, a, b) ==
    LET hi == IF b > Len(s) THEN Len(s) ELSE b
    IN  IF a >= hi THEN <<>> ELSE SubSeq(s, a + 1, hi)

US == <<"_">>
SL == <<"/">>
DOT == <<".">>
NL == <<"\n">>

(***************************************************************************)
(* Literals of the naming convention                                       *)
(***************************************************************************)
S_imap == <<"i","m","a","p">>
S_mag == <<"m","a","g">>
S_swe == <<"s","w","e">>
S_sdc == <<"s","d","c">>
S_l0 == <<"l","0">>
S_l1a == <<"l","1","a">>
S_l9 == <<"l","9">>
S_burst == <<"b","u","r","s","t">>
S_norm == <<"n","o","r","m">>
S_cdf == <<"c","d","f">>
S_pkts == <<"p","k","t","s">>
S_txt == <<"t","x","t">>
S_v0101 == <<"v","0","1","-","0","1">>
S_20210101 == <<"2","0","2","1","0","1","0","1">>
S_20210102 == <<"2","0","2","1","0","1","0","2">>
S_20210132 == <<"2","0","2","1","0","1","3","2">>
S_20210230 == <<"2","0","2","1","0","2","3","0">>
S_20201231 == <<"2","0","2","0","1","2","3","1">>
S_20240229 == <<"2","0","2","4","0","2","2","9">>
S_20240310 == <<"2","0","2","4","0","3","1","0">>
S_20240312 == <<"2","0","2","4","0","3","1","2">>
S_20250101 == <<"2","0","2","5","0","1","0","1">>
S_cal == <<"c","a","l">>
S_type == <<"t","y","p","e">>
S_files == <<"f","i","l","e","s">>
S_path == <<"p","a","t","h">>
S_science == <<"s","c","i","e","n","c","e">>
S_ancillary == <<"a","n","c","i","l","l","a","r","y">>
S_spice == <<"s","p","i","c","e">>
S_sc_attitude == <<"s","c","_","a","t","t","i","t","u","d","e">>
S_predict == <<"p","r","e","d","i","c","t">>
S_testdir == <<"/","t","e","s","t","/">>
S_reldir == <<"t","e","s","t","/">>

\* imap_data_access.VALID_INSTRUMENTS, VALID_DATALEVELS, VALID_FILE_EXTENSION
\* (package constants; the members used by the tests and the class docstring)
VALID_INSTRUMENTS == {S_mag, S_swe}
VALID_DATALEVELS == {S_l0, S_l1a}
VALID_FILE_EXTENSION == {S_pkts, S_cdf}

(***************************************************************************)
(* Regular-expression primitives, as re.match applies them from position p *)
(* (1-based).  Each returns the position after the match, or 0 if none; a  *)
(* primitive applied at position 0 fails, so a failed step fails the rest  *)
(* of its sequence.                                                        *)
(***************************************************************************)
\* a literal
LitAt(s, p, lit) ==
    IF p >= 1 /\ p + Len(lit) - 1 <= Len(s) /\ SubSeq(s, p, p + Len(lit) - 1) = lit
    THEN p + Len(lit) ELSE 0

\* \d{n}
DigitsAt(s, p, n) ==
    IF p >= 1 /\ p + n - 1 <= Len(s) /\ \A i \in p..(p + n - 1) : IsDigit(s[i])
    THEN p + n ELSE 0

\* [^_]* greedy: the position after the longest run of non-underscore
\* characters starting at p (the class also matches a newline)
RECURSIVE SpanEnd(_, _)
SpanEnd(s, p) ==
    IF p > Len(s) \/ s[p] = "_" THEN p ELSE SpanEnd(s, p + 1)

\* $ without re.MULTILINE: at the end, or just before a final newline
AtEnd(s, p) == p = Len(s) + 1 \/ (p = Len(s) /\ s[p] = "\n")

\* v\d{2}-\d{2}
VersionAt(s, p) ==
    LET a == LitAt(s, p, <<"v">>)
        b == DigitsAt(s, a, 2)
        c == LitAt(s, b, <<"-">>)
    IN  DigitsAt(s, c, 2)

\* cdf|pkts followed by $ : the first alternative that lets the match finish
ExtAt(s, p) ==
    LET a == LitAt(s, p, S_cdf)
        b == LitAt(s, p, S_pkts)
    IN  IF a # 0 /\ AtEnd(s, a) THEN a
        ELSE IF b # 0 /\ AtEnd(s, b) THEN b
        ELSE 0

NoMatch == [matched |-> FALSE]

\* (?P<startdate>\d{8})_(?P<enddate>\d{8})_(?P<version>v\d{2}-\d{2})\.(cdf|pkts)$
\* from position p: the groups, or NoMatch
DatesVersionExtAt(s, p) ==
    LET a == DigitsAt(s, p, 8)
        b == LitAt(s, a, US)
        c == DigitsAt(s, b, 8)
        d == LitAt(s, c, US)
        e == VersionAt(s, d)
        f == LitAt(s, e, DOT)
        g == ExtAt(s, f)
    IN  IF g = 0 THEN NoMatch
        ELSE [matched |-> TRUE,
              startdate |-> SubSeq(s, p, a - 1),
              enddate |-> SubSeq(s, b, c - 1),
              version |-> SubSeq(s, d, e - 1),
              extension |-> SubSeq(s, f, g - 1)]

\* (?P<name>[^_]+)_ from position p: the position after the underscore, or 0
FieldAt(s, p) ==
    IF p < 1 THEN 0
    ELSE LET e == SpanEnd(s, p)
         IN  IF e > p /\ e <= Len(s) THEN e + 1 ELSE 0

(***************************************************************************)
(* pathlib.Path: a path is its text; .name is the final segment            *)
(***************************************************************************)
RECURSIVE LastSlash(_, _)
LastSlash(s, i) ==
    IF i = 0 THEN 0 ELSE IF s[i] = "/" THEN i ELSE LastSlash(s, i - 1)

PathName(p) == SubSeq(p, LastSlash(p, Len(p)) + 1, Len(p))

IsAbsolute(p) == Len(p) > 0 /\ p[1] = "/"

\* Path(a) / b : an absolute right operand replaces the left one
PathJoin(a, b) == IF IsAbsolute(b) THEN b ELSE a \o SL \o b

(***************************************************************************)
(* file_validation.extract_filename_components                             *)
(***************************************************************************)
ValueError == "ValueError"
InvalidScienceFileError == "InvalidScienceFileError"
NoError == "none"
None == [none |-> TRUE]

\* MatchConvention with the descriptor group closed after its underscore
MatchConvention_GroupKeepsSeparator(s) ==
    LET Groups(m, i, l, d, t) ==
            IF ~t.matched THEN NoMatch
            ELSE [matched |-> TRUE,
                  groups |-> [mission |-> SubSeq(s, 1, m - 2),
                              instrument |-> SubSeq(s, m, i - 2),
                              datalevel |-> SubSeq(s, i, l - 2),
                              descriptor |-> SubSeq(s, l, d - 1),
                              startdate |-> t.startdate,
                              enddate |-> t.enddate,
                              version |-> t.version,
                              extension |-> t.extension]]
        m == LitAt(s, 1, S_imap \o US)
        i == FieldAt(s, m)
        l == FieldAt(s, i)
        d == FieldAt(s, l)
    IN  Groups(m, i, l, d, DatesVersionExtAt(s, d))

\* re.match(pattern, filename) with the pattern of file_validation.py
MatchConvention(s) ==
    LET Groups(m, i, l, d, t) ==
            IF ~t.matched THEN NoMatch
            ELSE [matched |-> TRUE,
                  groups |-> [mission |-> SubSeq(s, 1, m - 2),
                              instrument |-> SubSeq(s, m, i - 2),
                              datalevel |-> SubSeq(s, i, l - 2),
                              descriptor |-> SubSeq(s, l, d - 2),
                              startdate |-> t.startdate,
                              enddate |-> t.enddate,
                              version |-> t.version,
                              extension |-> t.extension]]
        m == LitAt(s, 1, S_imap \o US)
        i == FieldAt(s, m)
        l == FieldAt(s, i)
        d == FieldAt(s, l)
    IN  Groups(m, i, l, d, DatesVersionExtAt(s, d))

\* An argument is a str or a Path: [kind, text]
extract_filename_components(filename) ==
    LET name == IF filename.kind = "Path" THEN PathName(filename.text)
                ELSE filename.text
        Components(match) ==
            IF ~match.matched THEN [raised |-> ValueError, value |-> None]
            ELSE [raised |-> NoError, value |-> match.groups]
    IN  Components(MatchConvention(name))

(***************************************************************************)
(* file_naming.extract_filename_components                                 *)
(***************************************************************************)
\* (?P<descriptor>[^_]*)_?(?P<startdate>...)...$ from position p: the
\* descriptor is tried longest first, the optional underscore taken first
RECURSIVE DescriptorAt(_, _, _)
DescriptorAt(s, p, e) ==
    LET Try(withUS, without) ==
            IF withUS.matched
            THEN [matched |-> TRUE, descriptor |-> SubSeq(s, p, e - 1),
                  tail |-> withUS]
            ELSE IF without.matched
            THEN [matched |-> TRUE, descriptor |-> SubSeq(s, p, e - 1),
                  tail |-> without]
            ELSE IF e > p THEN DescriptorAt(s, p, e - 1)
            ELSE NoMatch
    IN  Try(DatesVersionExtAt(s, LitAt(s, e, US)), DatesVersionExtAt(s, e))

\* the descriptor and the rest from position p, or NoMatch
DescriptorFrom(s, p) ==
    IF p < 1 THEN NoMatch ELSE DescriptorAt(s, p, SpanEnd(s, p))

MatchNaming(s) ==
    LET Groups(m, i, l, d) ==
            IF ~d.matched THEN NoMatch
            ELSE [matched |-> TRUE,
                  groups |-> [instrument |-> SubSeq(s, m, i - 2),
                              datalevel |-> SubSeq(s, i, l - 2),
                              descriptor |-> d.descriptor,
                              startdate |-> d.tail.startdate,
                              enddate |-> d.tail.enddate,
                              version |-> d.tail.version]]
        m == LitAt(s, 1, S_imap \o US)
        i == FieldAt(s, m)
        l == FieldAt(s, i)
    IN  Groups(m, i, l, DescriptorFrom(s, l))

naming_extract_filename_components(filename) ==
    LET Components(match) ==
            IF ~match.matched THEN [raised |-> NoError, value |-> None]
            ELSE [raised |-> NoError, value |-> match.groups]
    IN  Components(MatchNaming(filename))

(***************************************************************************)
(* ScienceFilepathManager                                                  *)
(***************************************************************************)
\* %m of strptime: 1[0-2]|0[1-9]|[1-9] -- the end positions the alternatives
\* reach from p, in the order the regex engine tries them
MonthEnds(s, p) ==
    LET two == p + 1 <= Len(s)
               /\ \/ (s[p] = "1" /\ s[p + 1] \in {"0", "1", "2"})
                  \/ (s[p] = "0" /\ s[p + 1] \in Digits \ {"0"})
        one == p <= Len(s) /\ s[p] \in Digits \ {"0"}
    IN  (IF two THEN <<p + 2>> ELSE <<>>) \o (IF one THEN <<p + 1>> ELSE <<>>)

\* %d of strptime: 3[0-1]|[1-2]\d|0[1-9]|[1-9]| [1-9]
DayEnds(s, p) ==
    LET two == p + 1 <= Len(s)
               /\ \/ (s[p] = "3" /\ s[p + 1] \in {"0", "1"})
                  \/ (s[p] \in {"1", "2"} /\ IsDigit(s[p + 1]))
                  \/ (s[p] = "0" /\ s[p + 1] \in Digits \ {"0"})
        one == p <= Len(s) /\ s[p] \in Digits \ {"0"}
        sp  == p + 1 <= Len(s) /\ s[p] = " " /\ s[p + 1] \in Digits \ {"0"}
    IN  (IF two THEN <<p + 2>> ELSE <<>>) \o (IF one THEN <<p + 1>> ELSE <<>>)
        \o (IF sp THEN <<p + 2>> ELSE <<>>)

\* the match of the compiled format %Y%m%d at the start of s: the first
\* one in backtracking order; it need not reach the end of s
StrptimeMatch(s) ==
    LET Fields(m, e, dtext) ==
            [matched |-> TRUE,
             year |-> IntOf(SubSeq(s, 1, 4)),
             month |-> IntOf(SubSeq(s, 5, m - 1)),
             day |-> IntOf(IF Head(dtext) = " " THEN Tail(dtext) ELSE dtext),
             end |-> e]
        Day(m, e) == Fields(m, e, SubSeq(s, m, e - 1))
        Month(ms, good) ==
            IF good = {} THEN NoMatch
            ELSE LET k == CHOOSE k \in good : \A j \in good : k <= j
                 IN  Day(ms[k], Head(DayEnds(s, ms[k])))
        Months(ms) == Month(ms, {k \in 1..Len(ms) : DayEnds(s, ms[k]) # <<>>})
    IN  IF DigitsAt(s, 1, 4) = 0 THEN NoMatch ELSE Months(MonthEnds(s, 5))

IsLeap(y) == y % 4 = 0 /\ (y % 100 # 0 \/ y % 400 = 0)

DaysInMonth(y, m) ==
    IF m = 2 THEN (IF IsLeap(y) THEN 29 ELSE 28)
    ELSE IF m \in {4, 6, 9, 11} THEN 30 ELSE 31

\* datetime.strptime(input_date, "%Y%m%d") succeeds: the format matches, no
\* unconverted data remains, and the fields make a date
is_valid_date(input_date) ==
    LET MakesDate(m) ==
            /\ m.matched
            /\ m.end = Len(input_date) + 1
            /\ m.year >= 1
            /\ m.day <= DaysInMonth(m.year, m.month)
    IN  MakesDate(StrptimeMatch(input_date))

M_missing == "Invalid filename, missing attribute."
M_mission == "Invalid mission"
M_instrument == "Invalid instrument"
M_datalevel == "Invalid data level"
M_startdate == "Invalid start date format. Please use YYYYMMDD format."
M_enddate == "Invalid end date format. Please use YYYYMMDD format."
M_version == "Invalid version format. Please use vxx-xx format."
M_extension == "Invalid extension."
M_format == "Invalid filename. Expected file to match format"

\* Accumulate keeping only the first message
Accumulate_FirstOnly(error_message, cond, msg) ==
    IF cond /\ error_message = <<>> THEN <<msg>> ELSE error_message

\* ExtensionInvalid without the data-level rule
ExtensionInvalid_SetOnly(self) == self.extension \notin VALID_FILE_EXTENSION

\* error_message += msg, under the condition of its if statement; the message
\* is the sequence of the messages appended, the empty string the empty one
Accumulate(error_message, cond, msg) ==
    IF cond THEN error_message \o <<msg>> ELSE error_message

\* the condition of the extension check
ExtensionInvalid(self) ==
    \/ self.extension \notin VALID_FILE_EXTENSION
    \/ (self.data_level = S_l0 /\ self.extension # S_pkts)
    \/ (self.data_level # S_l0 /\ self.extension # S_cdf)

validate_filename(self) ==
    LET attrs == <<self.mission, self.instrument, self.data_level, self.descriptor,
                   self.startdate, self.enddate, self.version, self.extension>>
        v  == VersionAt(self.version, 1)
        e0 == IF \E k \in 1..Len(attrs) : attrs[k] = <<>> THEN <<M_missing>> ELSE <<>>
        e1 == Accumulate(e0, self.mission # S_imap, M_mission)
        e2 == Accumulate(e1, self.instrument \notin VALID_INSTRUMENTS, M_instrument)
        e3 == Accumulate(e2, self.data_level \notin VALID_DATALEVELS, M_datalevel)
        e4 == Accumulate(e3, ~is_valid_date(self.startdate), M_startdate)
        e5 == Accumulate(e4, ~is_valid_date(self.enddate), M_enddate)
        e6 == Accumulate(e5, ~(v # 0 /\ AtEnd(self.version, v)), M_version)
    IN  Accumulate(e6, ExtensionInvalid(self), M_extension)

\* ScienceFilepathManager.__init__
ScienceFilepathManager(filename) ==
    LET Validated(self, error_message) ==
            IF error_message # <<>>
            THEN [raised |-> InvalidScienceFileError,
                  message |-> error_message, value |-> None]
            ELSE [raised |-> NoError, message |-> error_message,
                  value |-> self @@ [error_message |-> error_message]]
        Validate(self) == Validated(self, validate_filename(self))
        Attributes(c) ==
            Validate([filename |-> filename,
                      mission |-> c.mission,
                      instrument |-> c.instrument,
                      data_level |-> c.datalevel,
                      descriptor |-> c.descriptor,
                      startdate |-> c.startdate,
                      enddate |-> c.enddate,
                      version |-> c.version,
                      extension |-> c.extension])
        Split(split_filename) ==
            IF split_filename.raised = ValueError
            THEN [raised |-> InvalidScienceFileError, message |-> <<M_format>>,
                  value |-> None]
            ELSE Attributes(split_filename.value)
    IN  Split(extract_filename_components(filename))

\* ScienceFilepathManager.upload_path: self.filename is formatted as given
upload_path(self) ==
    self.mission \o SL \o self.instrument \o SL \o self.data_level \o SL
    \o Slice(self.startdate, 0, 4) \o SL \o Slice(self.startdate, 4, 6) \o SL
    \o self.filename.text

\* construct_path_from_filename: Path(<directories>) / filename, with the
\* filename as given
construct_path_from_filename(filename) ==
    LET Joined(components) ==
            [raised |-> NoError,
             value |-> PathJoin(components.mission \o SL \o components.instrument
                                  \o SL \o components.datalevel \o SL
                                  \o Slice(components.startdate, 0, 4) \o SL
                                  \o Slice(components.startdate, 4, 6),
                                filename.text)]
        Path(e) ==
            IF e.raised = ValueError THEN [raised |-> ValueError, value |-> None]
            ELSE Joined(e.value)
    IN  Path(extract_filename_components(filename))

(***************************************************************************)
(* Inputs of the filename functions                                        *)
(***************************************************************************)
Filename(i, l, d, s, e, v, x) ==
    S_imap \o US \o i \o US \o l \o US \o d \o US \o s \o US \o e \o US \o v
    \o DOT \o x

BaseName == Filename(S_mag, S_l1a, S_burst, S_20210101, S_20210102, S_v0101, S_cdf)

\* names of the convention's shape, legal and illegal field values mixed
ShapedNames ==
    {Filename(i, l, S_burst, s, e, S_v0101, x) :
        i \in {S_mag, S_sdc}, l \in {S_l0, S_l1a, S_l9},
        s \in {S_20210101, S_20210132, S_20240229},
        e \in {S_20210102, S_20201231, S_20210230},
        x \in {S_cdf, S_pkts}}

\* names that are not of the convention's shape
MisshapedNames ==
    { \* no descriptor
      S_imap \o US \o S_mag \o US \o S_l1a \o US \o S_20210101 \o US
          \o S_20210102 \o US \o S_v0101 \o DOT \o S_cdf,
      \* no end date, no extension
      S_imap \o US \o S_mag \o US \o S_l1a \o US \o S_20210101 \o US \o S_v0101,
      \* no end date
      S_imap \o US \o S_mag \o US \o S_l1a \o US \o S_burst \o US \o S_20210101
          \o US \o S_v0101 \o DOT \o S_cdf,
      \* empty descriptor
      S_imap \o US \o S_mag \o US \o S_l1a \o US \o US \o S_20210101 \o US
          \o S_20210102 \o US \o S_v0101 \o DOT \o S_cdf,
      \* descriptor not separated from the start date
      S_imap \o US \o S_mag \o US \o S_l1a \o US \o S_burst \o S_20210101 \o US
          \o S_20210102 \o US \o S_v0101 \o DOT \o S_cdf,
      \* another extension, no extension
      Filename(S_mag, S_l1a, S_burst, S_20210101, S_20210102, S_v0101, S_txt),
      SubSeq(BaseName, 1, Len(BaseName) - 4),
      \* leading and trailing characters
      <<"x">> \o BaseName,
      BaseName \o <<"x">>,
      BaseName \o NL,
      S_testdir \o BaseName }

\* arguments of is_valid_date
DateStrings ==
    { S_20210101, S_20210132, S_20210230, S_20240229, S_20201231,
      <<"2","0","2","3","0","2","2","9">>,
      <<"2","0","2","1","-","0","1","-","0","1">>,
      <<"2","0","2","1","0","1","0">>,
      <<"2","0","2","1","0","1","1">>,
      <<"2","0","2","1","1","1">>,
      <<"2","0","2","1","0","1"," ","1">>,
      <<"2","0","2","1","1","3","0","1">>,
      <<"0","0","0","0","0","1","0","1">>,
      S_20210101 \o NL,
      <<>> }

PathTexts ==
    { BaseName, S_testdir \o BaseName, S_reldir \o BaseName,
      S_testdir \o Filename(S_mag, S_l0, S_burst, S_20240229, S_20210102, S_v0101, S_pkts),
      S_testdir \o Filename(S_sdc, S_l1a, S_burst, S_20210101, S_20210102, S_v0101, S_cdf),
      S_testdir \o Filename(S_mag, S_l1a, S_burst, S_20210101, S_20210102, S_v0101, S_txt) }

Inputs ==
    [kind : {"str"}, text : ShapedNames \cup MisshapedNames \cup DateStrings]
    \cup [kind : {"Path"}, text : PathTexts]

(***************************************************************************)
(* The filename functions, each applied to the input                       *)
(***************************************************************************)
NoResult == [op |-> "none", raised |-> NoError, message |-> <<>>, value |-> None]

NamesIdle ==
    /\ input = [kind |-> "str", text |-> <<>>]
    /\ result = NoResult
    /\ sfm = None

InputsIdle ==
    /\ pargs = [cls |-> "ScienceInput", args |-> <<>>]
    /\ pin = NoResult

Collections == {"A"}

NoCollResult ==
    [op |-> "none", c |-> "A", raised |-> NoError, value |-> None, arg |-> None,
     source |-> None]

\* ProcessingInputCollection(): each collection starts with its own empty list
CollectionsNew ==
    /\ coll = [c \in Collections |-> <<>>]
    /\ cres = NoCollResult

\* the list objects of the ownership scenario: the list the caller built and
\* the list each collection's constructor creates when given none
Owners == {"A", "B"}
CallerList == "caller"
OwnList(c) == c
Lists == {CallerList} \cup {OwnList(c) : c \in Owners}
NullRef == "None"

\* no collection constructed, no list filled
OwnershipIdle ==
    /\ heap = [l \in Lists |-> <<>>]
    /\ ref = [n \in Owners |-> NullRef]

InitNames ==
    /\ input \in Inputs
    /\ result = NoResult
    /\ sfm = None
    /\ InputsIdle
    /\ CollectionsNew
    /\ OwnershipIdle

CallExtract ==
    /\ LET Returned(r) ==
               result' = [op |-> "extract_filename_components", raised |-> r.raised,
                          message |-> <<>>, value |-> r.value]
       IN  Returned(extract_filename_components(input))
    /\ UNCHANGED <<ownvars, input, sfm, inputvars, collvars>>

CallNamingExtract ==
    /\ input.kind = "str"
    /\ LET Returned(r) ==
               result' = [op |-> "file_naming.extract_filename_components",
                          raised |-> r.raised, message |-> <<>>, value |-> r.value]
       IN  Returned(naming_extract_filename_components(input.text))
    /\ UNCHANGED <<ownvars, input, sfm, inputvars, collvars>>

CallScienceFilepathManager ==
    /\ LET Returned(r) ==
               /\ result' = [op |-> "ScienceFilepathManager", raised |-> r.raised,
                             message |-> r.message, value |-> r.value]
               /\ sfm' = IF r.raised = NoError THEN r.value ELSE sfm
       IN  Returned(ScienceFilepathManager(input))
    /\ UNCHANGED <<ownvars, input, inputvars, collvars>>

CallIsValidDate ==
    /\ input.kind = "str"
    /\ result' = [op |-> "is_valid_date", raised |-> NoError, message |-> <<>>,
                  value |-> is_valid_date(input.text)]
    /\ UNCHANGED <<ownvars, input, sfm, inputvars, collvars>>

CallUploadPath ==
    /\ sfm # None
    /\ result' = [op |-> "upload_path", raised |-> NoError, message |-> <<>>,
                  value |-> upload_path(sfm)]
    /\ UNCHANGED <<ownvars, input, sfm, inputvars, collvars>>

CallConstructPath ==
    /\ LET Returned(r) ==
               result' = [op |-> "construct_path_from_filename", raised |-> r.raised,
                          message |-> <<>>, value |-> r.value]
       IN  Returned(construct_path_from_filename(input))
    /\ UNCHANGED <<ownvars, input, sfm, inputvars, collvars>>

NextNames ==
    \/ CallExtract
    \/ CallNamingExtract
    \/ CallScienceFilepathManager
    \/ CallIsValidDate
    \/ CallUploadPath
    \/ CallConstructPath

SpecNames == InitNames /\ [][NextNames]_vars

(***************************************************************************)
(* Segments of a name of the convention                                    *)
(***************************************************************************)
\* the segments of s between underscores
RECURSIVE SplitUS(_)
SplitUS(s) ==
    IF \A k \in 1..Len(s) : s[k] # "_" THEN <<s>>
    ELSE LET k == CHOOSE k \in 1..Len(s) : s[k] = "_" /\ \A j \in 1..(k - 1) : s[j] # "_"
         IN  <<SubSeq(s, 1, k - 1)>> \o SplitUS(SubSeq(s, k + 1, Len(s)))

AllDigits(s, n) == Len(s) = n /\ \A k \in 1..n : s[k] \in Digits

\* v<2 digits>-<2 digits>.(cdf|pkts)
VersionDotExt(s) ==
    \E x \in {S_cdf, S_pkts} :
        /\ Len(s) = 7 + Len(x)
        /\ s[1] = "v" /\ AllDigits(SubSeq(s, 2, 3), 2) /\ s[4] = "-"
        /\ AllDigits(SubSeq(s, 5, 6), 2) /\ s[7] = "."
        /\ SubSeq(s, 8, Len(s)) = x

(***************************************************************************)
(* Properties of the filename functions (checked under SpecNames)          *)
(***************************************************************************)
\* s is exactly one full match of the naming convention
InGrammar(s) ==
    LET g == SplitUS(s)
    IN  /\ Len(g) = 7
        /\ g[1] = S_imap
        /\ g[2] # <<>> /\ g[3] # <<>> /\ g[4] # <<>>
        /\ AllDigits(g[5], 8) /\ AllDigits(g[6], 8)
        /\ VersionDotExt(g[7])

\* the name the input designates: the final segment of a path
InputName == IF input.kind = "Path" THEN PathName(input.text) ELSE input.text

\* the segments of the input name, for a name of the grammar
Seg == SplitUS(InputName)
SegVersion == SubSeq(Seg[7], 1, 6)
SegExtension == SubSeq(Seg[7], 8, Len(Seg[7]))

\* s is eight digits YYYYMMDD denoting a calendar date
RealDate(s) ==
    /\ AllDigits(s, 8)
    /\ LET y == IntOf(SubSeq(s, 1, 4))
           m == IntOf(SubSeq(s, 5, 6))
           d == IntOf(SubSeq(s, 7, 8))
       IN  y >= 1 /\ m \in 1..12 /\ d >= 1 /\ d <= DaysInMonth(y, m)

InExtractResult ==
    result.op \in {"extract_filename_components",
                   "file_naming.extract_filename_components"}

\* C2: every extract_filename_components (file_validation.py and
\* file_naming.py) raises ValueError for every string that is not exactly one
\* full match of the grammar; such a string is never turned into components
\* or into a None result.
C2_NonMatchingNameRaises ==
    (InExtractResult /\ ~InGrammar(InputName)) => result.raised = ValueError

JoinComponents(c) ==
    c.mission \o US \o c.instrument \o US \o c.datalevel \o US \o c.descriptor
    \o US \o c.startdate \o US \o c.enddate \o US \o c.version \o DOT \o c.extension

ExtensionConsistent ==
    \/ (Seg[3] = S_l0 /\ SegExtension = S_pkts)
    \/ (Seg[3] # S_l0 /\ SegExtension = S_cdf)

ViolatedRules ==
    (IF Seg[2] \notin VALID_INSTRUMENTS THEN {M_instrument} ELSE {})
    \cup (IF Seg[3] \notin VALID_DATALEVELS THEN {M_datalevel} ELSE {})
    \cup (IF ~RealDate(Seg[5]) THEN {M_startdate} ELSE {})
    \cup (IF ~RealDate(Seg[6]) THEN {M_enddate} ELSE {})
    \cup (IF ~ExtensionConsistent THEN {M_extension} ELSE {})

Messages(m) == {m[k] : k \in 1..Len(m)}

\* C4: when a grammar-matching filename violates several field rules at
\* once, constructing ScienceFilepathManager raises one
\* InvalidScienceFileError whose message contains the message of every
\* violated rule; a filename that violates none constructs successfully with
\* an empty error message.
C4_CompositeLegalityError ==
    (result.op = "ScienceFilepathManager" /\ InGrammar(InputName)) =>
        IF ViolatedRules = {}
        THEN result.raised = NoError /\ result.value.error_message = <<>>
        ELSE /\ result.raised = InvalidScienceFileError
             /\ ViolatedRules \subseteq Messages(result.message)

C4_Witness ==
    /\ result.op = "ScienceFilepathManager"
    /\ InGrammar(InputName)
    /\ Cardinality(ViolatedRules) = 5
    /\ result.raised = InvalidScienceFileError

OtherFieldsLegal ==
    /\ Seg[2] \in VALID_INSTRUMENTS
    /\ Seg[3] \in VALID_DATALEVELS
    /\ RealDate(Seg[5])
    /\ RealDate(Seg[6])

\* C5: for a filename whose other fields are all legal, construction
\* succeeds if and only if (data_level is l0 and extension is pkts) or
\* (data_level is not l0 and extension is cdf); the other pairings raise
\* InvalidScienceFileError.
C5_ExtensionLevelConsistency ==
    (result.op = "ScienceFilepathManager" /\ InGrammar(InputName) /\ OtherFieldsLegal) =>
        /\ result.raised = NoError <=> ExtensionConsistent
        /\ result.raised \in {NoError, InvalidScienceFileError}

C5_Witness ==
    /\ result.op = "ScienceFilepathManager"
    /\ InGrammar(InputName) /\ OtherFieldsLegal
    /\ Seg[3] = S_l0 /\ SegExtension = S_cdf
    /\ result.raised = InvalidScienceFileError

\* C6: is_valid_date(s) returns True if and only if s is exactly eight
\* digits YYYYMMDD denoting a real calendar date (False for every string
\* that is not eight characters long), and a filename whose start or end
\* date is digit-shaped but out of range fails validation with the
\* corresponding date message.
C6_ValidDateIffRealDate ==
    /\ result.op = "is_valid_date" => (result.value <=> RealDate(input.text))
    /\ (result.op = "ScienceFilepathManager" /\ InGrammar(InputName)) =>
          /\ ~RealDate(Seg[5]) => /\ result.raised = InvalidScienceFileError
                                  /\ M_startdate \in Messages(result.message)
          /\ ~RealDate(Seg[6]) => /\ result.raised = InvalidScienceFileError
                                  /\ M_enddate \in Messages(result.message)

\* C7: every successfully constructed ScienceFilepathManager has enddate
\* greater than or equal to startdate; a filename whose end date precedes
\* its start date is rejected.
C7_EndNotBeforeStart ==
    (result.op = "ScienceFilepathManager" /\ result.raised = NoError) =>
        IntOf(result.value.enddate) >= IntOf(result.value.startdate)

\* <mission>/<instrument>/<datalevel>/<YYYY>/<MM>/<bare filename>
ExpectedStoragePath ==
    Seg[1] \o SL \o Seg[2] \o SL \o Seg[3] \o SL \o SubSeq(Seg[5], 1, 4) \o SL
    \o SubSeq(Seg[5], 5, 6) \o SL \o InputName

\* C8: for every accepted input, bare filename or full path, the storage
\* path is <mission>/<instrument>/<datalevel>/<YYYY>/<MM>/<bare filename>
\* with only the final path segment as the filename, and upload_path() and
\* construct_path_from_filename() give the same path for the same input.
C8_StoragePath ==
    /\ result.op = "upload_path" => result.value = ExpectedStoragePath
    /\ (result.op = "construct_path_from_filename" /\ result.raised = NoError) =>
          result.value = ExpectedStoragePath
    /\ sfm # None =>
          upload_path(sfm) = construct_path_from_filename(sfm.filename).value

(***************************************************************************)
(* processing_input_file.py: ProcessingInput and its subclasses            *)
(***************************************************************************)
\* ProcessingInputType
SCIENCE_FILE == [name |-> "SCIENCE_FILE", value |-> S_science]
ANCILLARY_FILE == [name |-> "ANCILLARY_FILE", value |-> S_ancillary]
SPICE_FILE == [name |-> "SPICE_FILE", value |-> S_spice]

InvalidAncillaryFileError == "InvalidAncillaryFileError"
AttributeError == "AttributeError"
KeyError == "KeyError"
JSONDecodeError == "JSONDecodeError"

\* imap_data_access.ScienceFilePath: the science validator of the filename
\* convention, on a filename
ScienceFilePath(file) ==
    LET Attributes(m) ==
            IF m.raised # NoError THEN [raised |-> m.raised, value |-> None]
            ELSE [raised |-> NoError,
                  value |-> [instrument |-> m.value.instrument,
                             data_level |-> m.value.data_level,
                             descriptor |-> m.value.descriptor,
                             start_date |-> m.value.startdate,
                             end_date |-> m.value.enddate]]
    IN  Attributes(ScienceFilepathManager([kind |-> "str", text |-> file]))

\* imap_data_access.AncillaryFilePath: the convention with one date or a
\* date range; the instrument and the dates are checked
AncillaryFilePath(file) ==
    LET Ranged(g) == Len(g) = 7
        Ok(g) == /\ Len(g) \in {6, 7}
                 /\ g[1] = S_imap
                 /\ g[2] \in VALID_INSTRUMENTS
                 /\ g[3] # <<>> /\ g[4] # <<>>
                 /\ is_valid_date(g[5]) /\ Len(g[5]) = 8
                 /\ Ranged(g) => (is_valid_date(g[6]) /\ Len(g[6]) = 8)
                 /\ VersionDotExt(g[Len(g)])
        Attributes(g) ==
            IF ~Ok(g) THEN [raised |-> InvalidAncillaryFileError, value |-> None]
            ELSE [raised |-> NoError,
                  value |-> [instrument |-> g[2],
                             data_level |-> g[3],
                             descriptor |-> g[4],
                             start_date |-> g[5],
                             end_date |-> IF Ranged(g) THEN g[6] ELSE None]]
    IN  Attributes(SplitUS(file))

\* InputTypePathMapper[self.input_type.name].value(file)
InputTypePathMapper(input_type, file) ==
    IF input_type.name = "SCIENCE_FILE" THEN ScienceFilePath(file)
    ELSE AncillaryFilePath(file)

\* _set_attributes_from_filenames without the descriptor in the check
set_attributes_NoDescriptorCheck(self) ==
    LET n == Len(self.filename_list)
        Checked(source, data_type, descriptor) ==
            IF Cardinality(source) # 1 \/ Cardinality(data_type) # 1
            THEN [raised |-> ValueError, value |-> None]
            ELSE [raised |-> NoError,
                  value |-> [self EXCEPT !.source = CHOOSE x \in source : TRUE,
                                         !.data_type = CHOOSE x \in data_type : TRUE,
                                         !.descriptor = CHOOSE x \in descriptor : TRUE]]
        Collected(v, bad) ==
            IF bad # {}
            THEN [raised |-> v[CHOOSE k \in bad : \A j \in bad : k <= j].raised,
                  value |-> None]
            ELSE Checked({v[k].value.instrument : k \in 1..n},
                         {IF self.input_type = SCIENCE_FILE THEN v[k].value.data_level
                          ELSE self.input_type.value : k \in 1..n},
                         {v[k].value.descriptor : k \in 1..n})
        Validated(v) == Collected(v, {k \in 1..n : v[k].raised # NoError})
    IN  Validated([k \in 1..n |->
                      InputTypePathMapper(self.input_type, self.filename_list[k])])

\* ProcessingInput._set_attributes_from_filenames: the first filename its
\* validator rejects raises; then the three sets must each hold one value.
\* (file_path_list, which no method reads, is left out of the object.)
set_attributes_from_filenames(self) ==
    LET n == Len(self.filename_list)
        Checked(source, data_type, descriptor) ==
            IF \/ Cardinality(source) # 1
               \/ Cardinality(data_type) # 1
               \/ Cardinality(descriptor) # 1
            THEN [raised |-> ValueError, value |-> None]
            ELSE [raised |-> NoError,
                  value |-> [self EXCEPT !.source = CHOOSE x \in source : TRUE,
                                         !.data_type = CHOOSE x \in data_type : TRUE,
                                         !.descriptor = CHOOSE x \in descriptor : TRUE]]
        Collected(v, bad) ==
            IF bad # {}
            THEN [raised |-> v[CHOOSE k \in bad : \A j \in bad : k <= j].raised,
                  value |-> None]
            ELSE Checked({v[k].value.instrument : k \in 1..n},
                         {IF self.input_type = SCIENCE_FILE THEN v[k].value.data_level
                          ELSE self.input_type.value : k \in 1..n},
                         {v[k].value.descriptor : k \in 1..n})
        Validated(v) == Collected(v, {k \in 1..n : v[k].raised # NoError})
    IN  Validated([k \in 1..n |->
                      InputTypePathMapper(self.input_type, self.filename_list[k])])

\* SpiceInput._set_attributes_from_filenames: no filename is looked at
spice_set_attributes_from_filenames(self) ==
    [raised |-> NoError,
     value |-> [self EXCEPT !.source = S_sc_attitude,
                            !.data_type = SPICE_FILE.value,
                            !.descriptor = S_predict]]

\* self._set_attributes_from_filenames(), by the class of self
SetAttributes(self) ==
    IF self.cls = "SpiceInput" THEN spice_set_attributes_from_filenames(self)
    ELSE set_attributes_from_filenames(self)

\* ProcessingInput.__init__ without the final check of len(args)
ProcessingInput_init_NoEmptyCheck(self, args) ==
    IF \E k \in 1..Len(args) : args[k].kind # "str"
    THEN [raised |-> ValueError, value |-> None]
    ELSE SetAttributes([self EXCEPT !.filename_list = [k \in 1..Len(args) |-> args[k].text]])

\* ProcessingInput.__init__(self, *args); an argument is [kind, text], a str
\* when its kind is "str"
ProcessingInput_init(self, args) ==
    IF \E k \in 1..Len(args) : args[k].kind # "str"
    THEN [raised |-> ValueError, value |-> None]
    ELSE LET filled == [self EXCEPT !.filename_list =
                                        [k \in 1..Len(args) |-> args[k].text]]
             Checked(r) ==
                 IF r.raised # NoError THEN r
                 ELSE IF Len(args) < 1 THEN [raised |-> ValueError, value |-> None]
                 ELSE r
         IN  Checked(SetAttributes(filled))

\* an instance before __init__ runs: the class attributes of the dataclass
NewInstance(cls) ==
    [cls |-> cls, filename_list |-> None, input_type |-> None,
     source |-> None, data_type |-> None, descriptor |-> None]

ScienceInput(args) ==
    ProcessingInput_init([NewInstance("ScienceInput") EXCEPT !.input_type = SCIENCE_FILE],
                         args)

AncillaryInput(args) ==
    ProcessingInput_init([NewInstance("AncillaryInput") EXCEPT !.input_type = ANCILLARY_FILE],
                         args)

\* SpiceInput defines no __init__: input_type keeps the class default
SpiceInput(args) == ProcessingInput_init(NewInstance("SpiceInput"), args)

Construct(cls, args) ==
    CASE cls = "ScienceInput" -> ScienceInput(args)
      [] cls = "AncillaryInput" -> AncillaryInput(args)
      [] cls = "SpiceInput" -> SpiceInput(args)

(***************************************************************************)
(* Constructing a ProcessingInput                                          *)
(***************************************************************************)
MaxArgs == 2

Classes == {"ScienceInput", "AncillaryInput", "SpiceInput"}

F_mag_burst_10 == Filename(S_mag, S_l1a, S_burst, S_20240310, S_20240310, S_v0101, S_cdf)
F_mag_burst_12 == Filename(S_mag, S_l1a, S_burst, S_20240312, S_20240312, S_v0101, S_cdf)
F_mag_norm == Filename(S_mag, S_l1a, S_norm, S_20240310, S_20240310, S_v0101, S_cdf)
F_swe_burst == Filename(S_swe, S_l1a, S_burst, S_20240310, S_20240310, S_v0101, S_cdf)
F_mag_l0 == Filename(S_mag, S_l0, S_burst, S_20240310, S_20240310, S_v0101, S_pkts)
F_sdc == Filename(S_sdc, S_l1a, S_burst, S_20240310, S_20240310, S_v0101, S_cdf)
\* a science file whose end date is later than its start date
F_mag_burst_10_12 ==
    Filename(S_mag, S_l1a, S_burst, S_20240310, S_20240312, S_v0101, S_cdf)
\* an ancillary name with a single date
F_cal == S_imap \o US \o S_mag \o US \o S_l1a \o US \o S_cal \o US \o S_20250101
         \o US \o S_v0101 \o DOT \o S_cdf

ArgValues ==
    [kind : {"str"}, text : {F_mag_burst_10, F_mag_burst_12, F_mag_norm, F_swe_burst,
                             F_mag_l0, F_sdc, F_cal, F_mag_burst_10_12}]
    \cup {[kind |-> "int", text |-> <<"5">>], [kind |-> "Path", text |-> F_mag_burst_10],
          [kind |-> "str", text |-> <<>>]}

ArgTuples == UNION {[1..n -> ArgValues] : n \in 0..MaxArgs}

InitInputs ==
    /\ pargs \in [cls : Classes, args : ArgTuples]
    /\ pin = NoResult
    /\ NamesIdle
    /\ CollectionsNew
    /\ OwnershipIdle

CallConstruct ==
    /\ LET Returned(r) ==
               pin' = [op |-> "construct", raised |-> r.raised, message |-> <<>>,
                       value |-> r.value]
       IN  Returned(Construct(pargs.cls, pargs.args))
    /\ UNCHANGED <<ownvars, pargs, namevars, collvars>>

(***************************************************************************)
(* Properties of ProcessingInput construction (checked under SpecInputs)   *)
(***************************************************************************)
ArgCount == Len(pargs.args)
AllStrings == \A k \in 1..ArgCount : pargs.args[k].kind = "str"

\* every argument alone is accepted by the class
IndividuallyValid ==
    \A k \in 1..ArgCount : Construct(pargs.cls, <<pargs.args[k]>>).raised = NoError

\* what a member file stands for: the instrument, the data type (the data
\* level of a science file, the kind name otherwise) and the descriptor
SourceOf(f) == SplitUS(f)[2]
DataTypeOf(f) == IF pargs.cls = "ScienceInput" THEN SplitUS(f)[3] ELSE S_ancillary
DescriptorOf(f) == SplitUS(f)[4]

Homogeneous ==
    \A i, j \in 1..ArgCount :
        /\ SourceOf(pargs.args[i].text) = SourceOf(pargs.args[j].text)
        /\ DataTypeOf(pargs.args[i].text) = DataTypeOf(pargs.args[j].text)
        /\ DescriptorOf(pargs.args[i].text) = DescriptorOf(pargs.args[j].text)

\* C9: constructing a ScienceInput or AncillaryInput from two or more
\* individually valid filenames fails with ValueError whenever they do not
\* all share the same source, data_type and descriptor; when construction
\* succeeds, source, data_type and descriptor are the values common to all
\* member files.
C9_Homogeneity ==
    (/\ pin.op = "construct"
     /\ pargs.cls \in {"ScienceInput", "AncillaryInput"}
     /\ ArgCount >= 2 /\ AllStrings /\ IndividuallyValid) =>
        /\ ~Homogeneous => pin.raised = ValueError
        /\ pin.raised = NoError =>
              /\ Homogeneous
              /\ pin.value.source = SourceOf(pargs.args[1].text)
              /\ pin.value.data_type = DataTypeOf(pargs.args[1].text)
              /\ pin.value.descriptor = DescriptorOf(pargs.args[1].text)

C9_Witness ==
    /\ pin.op = "construct"
    /\ pargs.cls = "ScienceInput"
    /\ ArgCount >= 2 /\ AllStrings /\ IndividuallyValid
    /\ \E i, j \in 1..ArgCount :
          DescriptorOf(pargs.args[i].text) # DescriptorOf(pargs.args[j].text)
    /\ pin.raised = ValueError

\* C10: for every class, construction with zero filenames raises
\* ValueError, and construction with any argument that is not a string
\* raises ValueError; no instance is produced, so every instance has a
\* non-empty filename list of strings (the arguments, in order).
C10_EmptyAndNonString ==
    pin.op = "construct" =>
        /\ ArgCount = 0 => pin.raised = ValueError
        /\ ~AllStrings => pin.raised = ValueError
        /\ pin.raised # NoError => pin.value = None
        /\ pin.raised = NoError =>
              /\ ArgCount >= 1 /\ AllStrings
              /\ pin.value.filename_list = [k \in 1..ArgCount |-> pargs.args[k].text]

C10_Witness ==
    /\ pin.op = "construct"
    /\ pargs.cls = "SpiceInput"
    /\ ArgCount = 0
    /\ pin.raised = ValueError

(***************************************************************************)
(* json: a document is a sequence of tokens (punctuation and string        *)
(* literals); a value is a str, a list or a dict of (key, value) pairs     *)
(***************************************************************************)
Tok(x) == [t |-> x, s |-> <<>>]
StrTok(s) == [t |-> "str", s |-> s]

JStr(s) == [j |-> "str", s |-> s]
JList(items) == [j |-> "list", items |-> items]
JDict(pairs) == [j |-> "dict", items |-> pairs]

TypeError == "TypeError"

\* json.dumps
RECURSIVE Dumps(_), DumpsItems(_, _)
Dumps(v) ==
    CASE v.j = "str" -> <<StrTok(v.s)>>
      [] v.j = "list" -> <<Tok("[")>> \o DumpsItems(v.items, FALSE) \o <<Tok("]")>>
      [] v.j = "dict" -> <<Tok("{")>> \o DumpsItems(v.items, TRUE) \o <<Tok("}")>>

DumpsItems(items, isDict) ==
    IF items = <<>> THEN <<>>
    ELSE LET first == IF isDict
                      THEN <<StrTok(Head(items)[1]), Tok(":")>> \o Dumps(Head(items)[2])
                      ELSE Dumps(Head(items))
         IN  IF Len(items) = 1 THEN first
             ELSE first \o <<Tok(",")>> \o DumpsItems(Tail(items), isDict)

ParseFail == [ok |-> FALSE]

\* a dict keeps one pair per key: a repeated key replaces the value
SetItem(pairs, key, value) ==
    IF \E k \in 1..Len(pairs) : pairs[k][1] = key
    THEN [k \in 1..Len(pairs) |-> IF pairs[k][1] = key THEN <<key, value>> ELSE pairs[k]]
    ELSE Append(pairs, <<key, value>>)

\* the decoder: ParseValue reads one value from the head of the tokens,
\* ParseItems the elements of a list or dict up to its closing bracket
RECURSIVE ParseValue(_), ParseItems(_, _, _)
ParseValue(ts) ==
    IF ts = <<>> THEN ParseFail
    ELSE LET h == Head(ts)
         IN  CASE h.t = "str" -> [ok |-> TRUE, value |-> JStr(h.s), rest |-> Tail(ts)]
               [] h.t = "[" ->
                    IF Len(ts) >= 2 /\ ts[2].t = "]"
                    THEN [ok |-> TRUE, value |-> JList(<<>>), rest |-> SubSeq(ts, 3, Len(ts))]
                    ELSE ParseItems(Tail(ts), <<>>, FALSE)
               [] h.t = "{" ->
                    IF Len(ts) >= 2 /\ ts[2].t = "}"
                    THEN [ok |-> TRUE, value |-> JDict(<<>>), rest |-> SubSeq(ts, 3, Len(ts))]
                    ELSE ParseItems(Tail(ts), <<>>, TRUE)
               [] OTHER -> ParseFail

ParseItems(ts, acc, isDict) ==
    LET keyed == Len(ts) >= 2 /\ ts[1].t = "str" /\ ts[2].t = ":"
        Continue(v, acc2, sep) ==
            IF sep = "," THEN ParseItems(Tail(v.rest), acc2, isDict)
            ELSE IF sep = (IF isDict THEN "}" ELSE "]")
            THEN [ok |-> TRUE,
                  value |-> IF isDict THEN JDict(acc2) ELSE JList(acc2),
                  rest |-> Tail(v.rest)]
            ELSE ParseFail
        Item(v) ==
            IF ~v.ok \/ v.rest = <<>> THEN ParseFail
            ELSE Continue(v,
                          IF isDict THEN SetItem(acc, ts[1].s, v.value)
                          ELSE Append(acc, v.value),
                          Head(v.rest).t)
    IN  Item(IF isDict
             THEN (IF keyed THEN ParseValue(SubSeq(ts, 3, Len(ts))) ELSE ParseFail)
             ELSE ParseValue(ts))

\* json.loads
Loads(ts) ==
    LET Decoded(r) ==
            IF r.ok /\ r.rest = <<>> THEN [raised |-> NoError, value |-> r.value]
            ELSE [raised |-> JSONDecodeError, value |-> None]
    IN  Decoded(ParseValue(ts))

HasKey(d, key) == \E k \in 1..Len(d.items) : d.items[k][1] = key
GetItem(d, key) == d.items[CHOOSE k \in 1..Len(d.items) : d.items[k][1] = key][2]

(***************************************************************************)
(* ProcessingInput.construct_json_output and ProcessingInputCollection     *)
(***************************************************************************)
\* {"type": self.input_type.value, "files": self.filename_list}
construct_json_output(self) ==
    IF self.input_type = None THEN [raised |-> AttributeError, value |-> None]
    ELSE [raised |-> NoError,
          value |-> JDict(<< <<S_type, JStr(self.input_type.value)>>,
                             <<S_files, JList([k \in 1..Len(self.filename_list) |->
                                                   JStr(self.filename_list[k])])>> >>)]

\* ProcessingInputCollection.serialize
serialize(processing_input) ==
    LET n == Len(processing_input)
        Dumped(out) ==
            IF \E k \in 1..n : out[k].raised # NoError
            THEN [raised |-> out[CHOOSE k \in 1..n :
                                    /\ out[k].raised # NoError
                                    /\ \A j \in 1..(k - 1) : out[j].raised = NoError].raised,
                  value |-> None]
            ELSE [raised |-> NoError,
                  value |-> Dumps(JList([k \in 1..n |-> out[k].value]))]
    IN  Dumped([k \in 1..n |-> construct_json_output(processing_input[k])])

\* *x : the arguments a decoded value unpacks to
Unpack(x) ==
    CASE x.j = "list" -> [k \in 1..Len(x.items) |->
                             IF x.items[k].j = "str"
                             THEN [kind |-> "str", text |-> x.items[k].s]
                             ELSE [kind |-> x.items[k].j, text |-> <<>>]]
      [] x.j = "dict" -> [k \in 1..Len(x.items) |->
                             [kind |-> "str", text |-> x.items[k][1]]]
      [] x.j = "str" -> [k \in 1..Len(x.s) |-> [kind |-> "str", text |-> <<x.s[k]>>]]

\* the class a kind tag dispatches to, or "" for a tag of no kind
ClassOfTag(tag) ==
    IF tag = JStr(SCIENCE_FILE.value) THEN "ScienceInput"
    ELSE IF tag = JStr(ANCILLARY_FILE.value) THEN "AncillaryInput"
    ELSE IF tag = JStr(SPICE_FILE.value) THEN "SpiceInput"
    ELSE ""

\* the key deserialize reads the filenames from
FilesKey == S_path

\* the body of the loop of deserialize for one element: the entry to
\* append, nothing to append, or the exception raised
DeserializeOne(file_creator) ==
    IF file_creator.j # "dict" THEN [raised |-> TypeError, append |-> <<>>]
    ELSE IF ~HasKey(file_creator, S_type) THEN [raised |-> KeyError, append |-> <<>>]
    ELSE LET Constructed(r) ==
                 IF r.raised # NoError THEN [raised |-> r.raised, append |-> <<>>]
                 ELSE [raised |-> NoError, append |-> <<r.value>>]
             Dispatch(cls) ==
                 IF cls = "" THEN [raised |-> NoError, append |-> <<>>]
                 ELSE IF ~HasKey(file_creator, FilesKey)
                 THEN [raised |-> KeyError, append |-> <<>>]
                 ELSE Constructed(Construct(cls, Unpack(GetItem(file_creator, FilesKey))))
         IN  Dispatch(ClassOfTag(GetItem(file_creator, S_type)))

\* the loop over the decoded elements: it stops at the first exception,
\* with what was appended so far
RECURSIVE DeserializeLoop(_, _)
DeserializeLoop(elements, acc) ==
    IF elements = <<>> THEN [raised |-> NoError, processing_input |-> acc]
    ELSE LET Step(r) ==
                 IF r.raised # NoError THEN [raised |-> r.raised, processing_input |-> acc]
                 ELSE DeserializeLoop(Tail(elements), acc \o r.append)
         IN  Step(DeserializeOne(Head(elements)))

\* the values iterating a decoded document yields
Iterate(x) ==
    CASE x.j = "list" -> x.items
      [] x.j = "dict" -> [k \in 1..Len(x.items) |-> JStr(x.items[k][1])]
      [] x.j = "str" -> [k \in 1..Len(x.s) |-> JStr(<<x.s[k]>>)]

\* ProcessingInputCollection.deserialize: the new processing_input and the
\* exception raised, if any
deserialize(processing_input, json_input) ==
    LET Loaded(full_input) ==
            IF full_input.raised # NoError
            THEN [raised |-> full_input.raised, processing_input |-> processing_input]
            ELSE DeserializeLoop(Iterate(full_input.value), <<>>)
    IN  Loaded(Loads(json_input))

\* ProcessingInputCollection.get_science_files
get_science_files(processing_input) ==
    LET IsScience(file) == file.input_type = SCIENCE_FILE
    IN  SelectSeq(processing_input, IsScience)

\* a variant that skips an input the collection already holds
add_SkipPresent(processing_input, processing_inputs) ==
    LET Present(e) == \E k \in 1..Len(processing_input) : processing_input[k] = e
        New(e) == ~Present(e)
    IN  IF processing_inputs.isList
        THEN processing_input \o SelectSeq(processing_inputs.items, New)
        ELSE IF Present(processing_inputs.item) THEN processing_input
        ELSE Append(processing_input, processing_inputs.item)

\* ProcessingInputCollection.add
add(processing_input, processing_inputs) ==
    IF processing_inputs.isList THEN processing_input \o processing_inputs.items
    ELSE Append(processing_input, processing_inputs.item)

(***************************************************************************)
(* Methods of a constructed ProcessingInput                                *)
(***************************************************************************)
\* datetime.strptime(text, "%Y%m%d") of a date the validator accepted
strptime(s) ==
    LET Date(m) == [year |-> m.year, month |-> m.month, day |-> m.day]
    IN  Date(StrptimeMatch(s))

\* a < b of two datetimes
DateBefore(a, b) ==
    \/ a.year < b.year
    \/ a.year = b.year /\ a.month < b.month
    \/ a.year = b.year /\ a.month = b.month /\ a.day < b.day

\* the two comparisons of the loop body, and the returned pair
Earliest(earliest, date) ==
    IF earliest = None \/ DateBefore(date, earliest) THEN date ELSE earliest

Latest(latest, date) ==
    IF latest = None \/ DateBefore(latest, date) THEN date ELSE latest

TimeRange(earliest, latest) == [earliest |-> earliest, latest |-> latest]

\* a variant that takes the latest end date instead of the latest start date
ScienceInput_get_time_range_LatestEndDate(self) ==
    LET RECURSIVE Loop(_, _, _)
        Compare(k, earliest, latest, filepath) ==
            Loop(k + 1, Earliest(earliest, strptime(filepath.start_date)),
                        Latest(latest, strptime(filepath.end_date)))
        Loop(k, earliest, latest) ==
            IF k > Len(self.filename_list) THEN TimeRange(earliest, latest)
            ELSE Compare(k, earliest, latest, ScienceFilePath(self.filename_list[k]).value)
    IN  Loop(1, None, None)

\* ScienceInput.get_time_range
ScienceInput_get_time_range(self) ==
    LET RECURSIVE Loop(_, _, _)
        Compare(k, earliest, latest, date) ==
            Loop(k + 1, Earliest(earliest, date), Latest(latest, date))
        Loop(k, earliest, latest) ==
            IF k > Len(self.filename_list) THEN TimeRange(earliest, latest)
            ELSE Compare(k, earliest, latest,
                         strptime(ScienceFilePath(self.filename_list[k]).value.start_date))
    IN  Loop(1, None, None)

\* AncillaryInput.get_time_range; filepath.end_date is not None exactly when
\* the name carries two dates
AncillaryInput_get_time_range(self) ==
    LET RECURSIVE Loop(_, _, _)
        HasEndDate(file) == Len(SplitUS(file)) = 7
        Compare(k, earliest, latest, startdate, enddate) ==
            Loop(k + 1, Earliest(earliest, startdate), Latest(latest, enddate))
        Dates(k, earliest, latest, file, filepath) ==
            Compare(k, earliest, latest, strptime(filepath.start_date),
                    IF HasEndDate(file) THEN strptime(filepath.end_date)
                    ELSE strptime(filepath.start_date))
        Loop(k, earliest, latest) ==
            IF k > Len(self.filename_list) THEN TimeRange(earliest, latest)
            ELSE Dates(k, earliest, latest, self.filename_list[k],
                       AncillaryFilePath(self.filename_list[k]).value)
    IN  Loop(1, None, None)

\* SpiceInput.get_time_range: the body is pass, the call returns None
SpiceInput_get_time_range(self) == None

get_time_range(self) ==
    CASE self.cls = "ScienceInput" -> ScienceInput_get_time_range(self)
      [] self.cls = "AncillaryInput" -> AncillaryInput_get_time_range(self)
      [] self.cls = "SpiceInput" -> SpiceInput_get_time_range(self)

\* the instance the last construction or method call left in hand
Instance == IF pin.op = "construct" THEN pin.value ELSE pin.self

HasInstance ==
    \/ pin.op = "construct" /\ pin.raised = NoError
    \/ pin.op \in {"construct_json_output", "get_time_range"}

\* instance.construct_json_output()
CallConstructJsonOutput ==
    /\ HasInstance
    /\ LET Returned(r) ==
               pin' = [op |-> "construct_json_output", raised |-> r.raised,
                       message |-> <<>>, value |-> r.value, self |-> Instance]
       IN  Returned(construct_json_output(Instance))
    /\ UNCHANGED <<ownvars, pargs, namevars, collvars>>

\* instance.get_time_range()
CallGetTimeRange ==
    /\ HasInstance
    /\ pin' = [op |-> "get_time_range", raised |-> NoError, message |-> <<>>,
               value |-> get_time_range(Instance), self |-> Instance]
    /\ UNCHANGED <<ownvars, pargs, namevars, collvars>>

NextInputs ==
    \/ CallConstruct
    \/ CallConstructJsonOutput
    \/ CallGetTimeRange

SpecInputs == InitInputs /\ [][NextInputs]_vars

(***************************************************************************)
(* Properties of the methods (checked under SpecInputs)                    *)
(***************************************************************************)
KindOf(e) ==
    CASE e.cls = "ScienceInput" -> S_science
      [] e.cls = "AncillaryInput" -> S_ancillary
      [] e.cls = "SpiceInput" -> S_spice

\* C11: for every successfully constructed ProcessingInput of every variant,
\* construct_json_output() succeeds and returns a mapping with exactly the
\* two keys "type" and "files": the kind literal of the variant and the
\* filename list in construction order.
C11_WireForm ==
    pin.op = "construct_json_output" =>
        /\ pin.raised = NoError
        /\ pin.value =
              JDict(<< <<S_type, JStr(KindOf(pin.self))>>,
                       <<S_files, JList([k \in 1..Len(pin.self.filename_list) |->
                                            JStr(pin.self.filename_list[k])])>> >>)

\* the shape of an ancillary name: the convention with one date or two
InAncillaryGrammar(s) ==
    LET g == SplitUS(s)
    IN  /\ Len(g) \in {6, 7}
        /\ g[1] = S_imap
        /\ g[2] # <<>> /\ g[3] # <<>> /\ g[4] # <<>>
        /\ \A k \in 5..(Len(g) - 1) : AllDigits(g[k], 8)
        /\ VersionDotExt(g[Len(g)])

\* the filename grammar of each variant; the naming scheme of SPICE kernels
\* is left open, so only what every scheme requires is asked of it: a name
\* of at least one character
InVariantGrammar(cls, f) ==
    CASE cls = "ScienceInput" -> InGrammar(f)
      [] cls = "AncillaryInput" -> InAncillaryGrammar(f)
      [] cls = "SpiceInput" -> f # <<>>

\* C12: a ProcessingInput of any variant, spice included, cannot be
\* constructed from a filename that does not satisfy the variant's filename
\* grammar: whenever construction succeeds, every filename of the instance
\* is in the grammar of its variant.
C12_ValidationOnConstruction ==
    (pin.op = "construct" /\ pin.raised = NoError) =>
        \A k \in 1..Len(pin.value.filename_list) :
            InVariantGrammar(pargs.cls, pin.value.filename_list[k])

\* the start date of a member file, read off its name: the fifth segment,
\* as a number YYYYMMDD
StartOf(f) == IntOf(SplitUS(f)[5])

DateNumber(d) == d.year * 10000 + d.month * 100 + d.day

StartDates(self) == {StartOf(self.filename_list[k]) : k \in 1..Len(self.filename_list)}

\* C16: for every ScienceInput, get_time_range() returns (start, end) where
\* start is the earliest and end the latest start date among the member
\* files; end dates are not consulted, start <= end, and the result is a
\* function of the set of start dates only, so the order of the filenames
\* does not matter (files starting 20240310 and 20240312 give
\* (2024-03-10, 2024-03-12)).
C16_ScienceTimeRange ==
    (pin.op = "get_time_range" /\ pin.self.cls = "ScienceInput") =>
        /\ DateNumber(pin.value.earliest) \in StartDates(pin.self)
        /\ DateNumber(pin.value.latest) \in StartDates(pin.self)
        /\ \A d \in StartDates(pin.self) :
               DateNumber(pin.value.earliest) <= d /\ d <= DateNumber(pin.value.latest)
        /\ DateNumber(pin.value.earliest) <= DateNumber(pin.value.latest)
        /\ StartDates(pin.self) = {20240310, 20240312} =>
               /\ pin.value.earliest = [year |-> 2024, month |-> 3, day |-> 10]
               /\ pin.value.latest = [year |-> 2024, month |-> 3, day |-> 12]

\* a ScienceInput of two files given latest first, one of them ending
\* after every start date, has reported its time range
C16_Witness ==
    /\ pin.op = "get_time_range"
    /\ pin.self.cls = "ScienceInput"
    /\ pin.self.filename_list = <<F_mag_burst_12, F_mag_burst_10_12>>
    /\ pin.value = [earliest |-> [year |-> 2024, month |-> 3, day |-> 10],
                    latest |-> [year |-> 2024, month |-> 3, day |-> 12]]

(***************************************************************************)
(* Collections: add, serialize, deserialize                                *)
(***************************************************************************)
MaxEntries == 3
MaxAddList == 2

\* the inputs a caller constructs for its collections
EntryArgs ==
    { [cls |-> "ScienceInput",
       args |-> <<[kind |-> "str", text |-> F_mag_burst_12],
                  [kind |-> "str", text |-> F_mag_burst_10]>>],
      [cls |-> "AncillaryInput", args |-> <<[kind |-> "str", text |-> F_cal]>>],
      [cls |-> "SpiceInput", args |-> <<[kind |-> "str", text |-> F_mag_norm]>>],
      [cls |-> "ScienceInput", args |-> <<[kind |-> "str", text |-> F_sdc]>>] }

\* the instances their construction yields
Entries ==
    {Construct(a.cls, a.args).value :
        a \in {b \in EntryArgs : Construct(b.cls, b.args).raised = NoError}}

EntryLists == UNION {[1..n -> Entries] : n \in 0..MaxAddList}

WireOf(cls_tag, key, name) ==
    JDict(<< <<S_type, JStr(cls_tag)>>, <<key, JList(<<JStr(name)>>)>> >>)

\* documents a caller writes by hand
HandWires ==
    { \* the filenames under the key "path"
      Dumps(JList(<<WireOf(S_science, S_path, F_mag_burst_10),
                    WireOf(S_spice, S_path, F_mag_norm)>>)),
      \* a kind tag of no kind, then an element in the form serialize writes
      Dumps(JList(<<WireOf(S_burst, S_files, F_mag_burst_10),
                    WireOf(S_ancillary, S_path, F_cal),
                    WireOf(S_science, S_files, F_mag_burst_10)>>)),
      \* the form serialize writes, with a kind tag of no kind first
      Dumps(JList(<<WireOf(S_burst, S_files, F_mag_burst_10),
                    WireOf(S_ancillary, S_files, F_cal)>>)),
      \* a filename the validator rejects
      Dumps(JList(<<WireOf(S_science, S_path, F_sdc)>>)),
      \* not a JSON document
      <<Tok("["), Tok("{")>> }

InitCollections ==
    /\ CollectionsNew
    /\ NamesIdle
    /\ InputsIdle
    /\ OwnershipIdle

\* c.add(entry)
Add(c, e) ==
    /\ Len(coll[c]) < MaxEntries
    /\ coll' = [coll EXCEPT ![c] = add(coll[c], [isList |-> FALSE, item |-> e])]
    /\ cres' = [op |-> "add", c |-> c, raised |-> NoError, value |-> None,
                arg |-> <<e>>, source |-> coll[c]]
    /\ UNCHANGED <<ownvars, namevars, inputvars>>

\* c.add([entry, ...])
AddList(c, l) ==
    /\ Len(coll[c]) + Len(l) <= MaxEntries
    /\ coll' = [coll EXCEPT ![c] = add(coll[c], [isList |-> TRUE, items |-> l])]
    /\ cres' = [op |-> "add", c |-> c, raised |-> NoError, value |-> None,
                arg |-> l, source |-> coll[c]]
    /\ UNCHANGED <<ownvars, namevars, inputvars>>

\* c.serialize()
Serialize(c) ==
    /\ LET Returned(r) ==
               cres' = [op |-> "serialize", c |-> c, raised |-> r.raised,
                        value |-> r.value, arg |-> None, source |-> coll[c]]
       IN  Returned(serialize(coll[c]))
    /\ UNCHANGED <<ownvars, coll, namevars, inputvars>>

\* c.get_science_files()
GetScienceFiles(c) ==
    /\ cres' = [op |-> "get_science_files", c |-> c, raised |-> NoError,
                value |-> get_science_files(coll[c]), arg |-> None,
                source |-> coll[c]]
    /\ UNCHANGED <<ownvars, coll, namevars, inputvars>>

\* c.deserialize(w), w the string the last serialize() returned
DeserializeSerialized(c) ==
    /\ cres.op = "serialize" /\ cres.raised = NoError
    /\ LET Returned(r) ==
               /\ coll' = [coll EXCEPT ![c] = r.processing_input]
               /\ cres' = [op |-> "deserialize", c |-> c, raised |-> r.raised,
                           value |-> None, arg |-> cres.value,
                           source |-> cres.source]
       IN  Returned(deserialize(coll[c], cres.value))
    /\ UNCHANGED <<ownvars, namevars, inputvars>>

\* c.deserialize(w), w a document written by hand
DeserializeWire(c, w) ==
    /\ LET Returned(r) ==
               /\ coll' = [coll EXCEPT ![c] = r.processing_input]
               /\ cres' = [op |-> "deserialize", c |-> c, raised |-> r.raised,
                           value |-> None, arg |-> w, source |-> None]
       IN  Returned(deserialize(coll[c], w))
    /\ UNCHANGED <<ownvars, namevars, inputvars>>

Next ==
    \/ \E c \in Collections, e \in Entries : Add(c, e)
    \/ \E c \in Collections, l \in EntryLists : AddList(c, l)
    \/ \E c \in Collections : Serialize(c)
    \/ \E c \in Collections : GetScienceFiles(c)
    \/ \E c \in Collections : DeserializeSerialized(c)
    \/ \E c \in Collections, w \in HandWires : DeserializeWire(c, w)

Spec == InitCollections /\ [][Next]_vars

(***************************************************************************)
(* Ownership of the list: __init__ and add on list objects                 *)
(***************************************************************************)
MaxOwnLen == 2

\* the entries the caller has at hand
OwnEntries == {e \in Entries : e.cls \in {"ScienceInput", "AncillaryInput"}}

OwnEntryLists == UNION {[1..n -> OwnEntries] : n \in 0..MaxOwnLen}

\* ProcessingInputCollection.__init__: the list object processing_input is
\* bound to, fresh being the list the expression [] creates
ProcessingInputCollection_init(processing_inputs, fresh) ==
    IF processing_inputs = NullRef THEN fresh ELSE processing_inputs

\* the caller has built a list; no collection exists yet
InitOwnership ==
    /\ heap \in {[l \in Lists |-> IF l = CallerList THEN s ELSE <<>>] : s \in OwnEntryLists}
    /\ ref = [n \in Owners |-> NullRef]
    /\ NamesIdle
    /\ InputsIdle
    /\ CollectionsNew

\* c = ProcessingInputCollection() or c = ProcessingInputCollection(caller_list)
NewCollection(c, processing_inputs) ==
    /\ ref[c] = NullRef
    /\ ref' = [ref EXCEPT ![c] = ProcessingInputCollection_init(processing_inputs, OwnList(c))]
    /\ UNCHANGED <<heap, namevars, inputvars, collvars>>

\* c.add(entry): append on the list object processing_input refers to
OwnAdd(c, e) ==
    /\ ref[c] # NullRef
    /\ Len(heap[ref[c]]) < MaxOwnLen
    /\ heap' = [heap EXCEPT ![ref[c]] = add(@, [isList |-> FALSE, item |-> e])]
    /\ UNCHANGED <<ref, namevars, inputvars, collvars>>

\* c.add([entry, ...]): extend on the list object
OwnAddList(c, l) ==
    /\ ref[c] # NullRef
    /\ Len(heap[ref[c]]) + Len(l) <= MaxOwnLen
    /\ heap' = [heap EXCEPT ![ref[c]] = add(@, [isList |-> TRUE, items |-> l])]
    /\ UNCHANGED <<ref, namevars, inputvars, collvars>>

NextOwnership ==
    \/ \E c \in Owners, p \in {NullRef, CallerList} : NewCollection(c, p)
    \/ \E c \in Owners, e \in OwnEntries : OwnAdd(c, e)
    \/ \E c \in Owners, l \in OwnEntryLists : OwnAddList(c, l)

SpecOwnership == InitOwnership /\ [][NextOwnership]_vars

(***************************************************************************)
(* Properties of the collection (checked under Spec)                       *)
(***************************************************************************)
\* the (kind, filename list) pairs of the entries, in order
Pairs(items) == [k \in 1..Len(items) |-> <<KindOf(items[k]), items[k].filename_list>>]

\* C1: for every collection C built from successfully constructed science,
\* ancillary and spice inputs, serialize() on C and then deserialize() on
\* the resulting string succeed and yield a collection whose entries have
\* the same (kind, filename list) pairs as C, in the same order.
C1_SerializeDeserializeRoundTrip ==
    /\ cres.op = "serialize" => cres.raised = NoError
    /\ (cres.op = "deserialize" /\ cres.source # None) =>
          /\ cres.raised = NoError
          /\ Pairs(coll[cres.c]) = Pairs(cres.source)

\* C14: after an add call, with a single ProcessingInput or a list of them,
\* the collection's entries are exactly the entries before the call followed
\* by the added entries in the order given; nothing is dropped, reordered
\* or deduplicated, so over any sequence of add calls the collection is the
\* initial entries followed by all added entries in call order.
C14_AddKeepsOrder ==
    cres.op = "add" => coll[cres.c] = cres.source \o cres.arg

\* an entry the collection already held twice has been added a third time
C14_Witness ==
    /\ cres.op = "add"
    /\ Len(cres.source) = 2
    /\ cres.source[1] = cres.source[2]
    /\ cres.arg = <<cres.source[1]>>
    /\ Len(coll[cres.c]) = 3

\* the positions of the science entries, in collection order
SciencePositions(items) == {k \in 1..Len(items) : items[k].cls = "ScienceInput"}

\* out is the subsequence of items at the positions ks
IsSubsequenceAt(out, items, ks) ==
    /\ Len(out) = Cardinality(ks)
    /\ \A k \in ks : out[Cardinality({j \in ks : j <= k})] = items[k]

\* get_science_files() returns exactly the science entries, in collection
\* order, and leaves the collection as it was
FilterByKind ==
    cres.op = "get_science_files" =>
        /\ cres.raised = NoError
        /\ IsSubsequenceAt(cres.value, cres.source, SciencePositions(cres.source))
        /\ coll[cres.c] = cres.source

\* serialize() leaves the collection as it was
SerializeFrame == cres.op = "serialize" => coll[cres.c] = cres.source

\* the array serialize() returned holds one element per entry, in
\* collection order: the kind tag and the filename list of that entry
EmittedInOrder ==
    /\ cres.raised = NoError
    /\ Loads(cres.value).raised = NoError
    /\ Loads(cres.value).value =
          JList([k \in 1..Len(cres.source) |->
                    JDict(<< <<S_type, JStr(KindOf(cres.source[k]))>>,
                             <<S_files,
                               JList([j \in 1..Len(cres.source[k].filename_list) |->
                                         JStr(cres.source[k].filename_list[j])])>> >>)])

\* C15: get_science_files() returns exactly the entries of the collection
\* whose kind is science, in collection order, and leaves the collection's
\* contents and order unchanged; serialize() likewise leaves the collection
\* unchanged and emits the entries in collection order.
C15_FilterByKind ==
    /\ FilterByKind
    /\ SerializeFrame
    /\ cres.op = "serialize" => EmittedInOrder

\* the same with serialize() asked for the order only when it returns
C15_WhenSerializeReturns ==
    /\ FilterByKind
    /\ SerializeFrame
    /\ (cres.op = "serialize" /\ cres.raised = NoError) => EmittedInOrder

\* w is a JSON array of elements {"type": tag, key: [filename, ...]} whose
\* filenames the variant named by a recognised tag accepts
IsEntryUnder(x, key) ==
    /\ x.j = "dict"
    /\ HasKey(x, S_type) /\ HasKey(x, key)
    /\ GetItem(x, S_type).j = "str"
    /\ GetItem(x, key).j = "list"
    /\ ClassOfTag(GetItem(x, S_type)) # "" =>
          Construct(ClassOfTag(GetItem(x, S_type)), Unpack(GetItem(x, key))).raised = NoError

IsArrayUnder(w, key) ==
    /\ Loads(w).raised = NoError
    /\ Loads(w).value.j = "list"
    /\ \A k \in 1..Len(Loads(w).value.items) : IsEntryUnder(Loads(w).value.items[k], key)

\* one entry per element with a recognised kind tag, in array order, of the
\* variant the tag names
RECURSIVE EntriesOf(_, _)
EntriesOf(elements, key) ==
    IF elements = <<>> THEN <<>>
    ELSE IF ClassOfTag(GetItem(Head(elements), S_type)) = ""
    THEN EntriesOf(Tail(elements), key)
    ELSE <<Construct(ClassOfTag(GetItem(Head(elements), S_type)),
                     Unpack(GetItem(Head(elements), key))).value>>
         \o EntriesOf(Tail(elements), key)

DeserializeReplacesUnder(key) ==
    (cres.op = "deserialize" /\ IsArrayUnder(cres.arg, key)) =>
        /\ cres.raised = NoError
        /\ coll[cres.c] = EntriesOf(Loads(cres.arg).value.items, key)

\* C13: after deserialize(w) on a JSON array w of elements
\* {"type": ..., "files": [...]}, the collection holds exactly one entry per
\* element whose kind tag is "science", "ancillary" or "spice", in array
\* order and of the variant named by the tag; elements with any other kind
\* tag are dropped without failing the decode; nothing of the previous
\* contents remains, so the result depends only on w.
C13_DeserializeReplaces == DeserializeReplacesUnder(S_files)

\* the same for arrays that carry the filenames under the key deserialize
\* reads
C13_UnderPathKey == DeserializeReplacesUnder(FilesKey)

\* C17: if deserialize(w) fails for any reason, the collection's contents
\* are the same as before the call; a failed decode never leaves the
\* collection emptied or holding only a prefix of the decoded entries.
C17_DeserializeAllOrNothing ==
    [][(cres'.op = "deserialize" /\ cres'.raised # NoError) => coll' = coll]_vars

(***************************************************************************)
(* Properties of ownership (checked under SpecOwnership)                   *)
(***************************************************************************)
\* the entries of a constructed collection
Contents(c) == heap[ref[c]]

\* a step that is a call of add on collection c
AddOn(c) ==
    \/ \E e \in OwnEntries : OwnAdd(c, e)
    \/ \E l \in OwnEntryLists : OwnAddList(c, l)

\* C18: a collection constructed from a caller's list is independent of
\* that list and of any other collection built from the same list: an add()
\* on one collection changes neither the caller's list nor the contents of
\* the other collection; two collections created with no argument never
\* share entries.
C18_ExclusiveOwnership ==
    [][\A c \in Owners :
          AddOn(c) =>
              /\ heap'[CallerList] = heap[CallerList]
              /\ \A d \in Owners \ {c} :
                     ref[d] # NullRef => Contents(d)' = Contents(d)]_vars

\* the same for collections created with no argument
C18_NoArgumentCollections ==
    [][\A c \in Owners :
          (AddOn(c) /\ \A d \in Owners : ref[d] \in {NullRef, OwnList(d)}) =>
              /\ heap'[CallerList] = heap[CallerList]
              /\ \A d \in Owners \ {c} :
                     ref[d] # NullRef => Contents(d)' = Contents(d)]_vars

====
